---- MODULE Spec2Model ----
(***************************************************************************)
(* Model of src/logger/logger_writer.go (CrowdStrike/golog): the fixed     *)
(* pool of log messages (freeMessages), the pending queue (messages), the  *)
(* producers' log call (queueMsg / queueMsgDirect), the single writer      *)
(* goroutine (logWriter), the sink selection (SetCustomSocket) and the     *)
(* shutdown call (drainTheQueue).                                          *)
(*                                                                         *)
(* Every goroutine is a process with a program counter; one action is one *)
(* shared-memory operation of the code (a lock operation, a channel       *)
(* operation, a read or write of a global) together with the purely local *)
(* work that follows it.                                                  *)
(***************************************************************************)
EXTENDS Integers, Sequences, FiniteSets, TLC

(***************************************************************************)
(* Bounds of the model.                                                    *)
(***************************************************************************)
\* NumMessages is 10 * 1024 in the source (line 25); the model runs the same
\* code with a small pool and queue.
NumMessages == 2
\* total number of log calls issued by all producers
MaxCalls == 3
\* number of filler bytes of the long message body
BigPad == 8200

Producers == {"p1", "p2"}
Drainers == {"d1", "d2"}

(***************************************************************************)
(* Program constants.                                                      *)
(***************************************************************************)
MaxFreeMsgSize == 8 * 1024
\* bytes.Buffer allocates 64 bytes for a first small write (smallBufferSize)
SmallBufferSize == 64
\* <syslog.h>
LOG_ERR == 3
LOG_WARNING == 4
LOG_INFO == 6
LOG_DEBUG == 7
LOG_USER == 8

Levels == {"Access", "Off", "Panic", "Error", "Warn", "Info", "Debug"}

levelSysLog(lvl) ==
    CASE lvl = "Access" -> LOG_INFO
      [] lvl = "Off"    -> LOG_DEBUG
      [] lvl = "Panic"  -> LOG_ERR
      [] lvl = "Error"  -> LOG_ERR
      [] lvl = "Warn"   -> LOG_WARNING
      [] lvl = "Info"   -> LOG_INFO
      [] lvl = "Debug"  -> LOG_DEBUG

levelMapFmt(lvl) ==
    CASE lvl = "Access" -> "[Access] "
      [] lvl = "Off"    -> "[Off] "
      [] lvl = "Panic"  -> "[Panic] "
      [] lvl = "Error"  -> "[Error] "
      [] lvl = "Warn"   -> "[Warn] "
      [] lvl = "Info"   -> "[Info] "
      [] lvl = "Debug"  -> "[Debug] "

(***************************************************************************)
(* Byte strings.  A chunk stands for the bytes of the string s, followed   *)
(* by pad filler bytes, followed by nul NUL bytes; a buffer is a sequence  *)
(* of chunks, one per Write / WriteByte.                                   *)
(***************************************************************************)
Str(s) == [s |-> s, pad |-> 0, nul |-> 0]
NulByte == [s |-> "", pad |-> 0, nul |-> 1]
ChunkLen(c) == Len(c.s) + c.pad + c.nul

RECURSIVE BufLen(_)
BufLen(buf) == IF buf = <<>> THEN 0 ELSE ChunkLen(Head(buf)) + BufLen(Tail(buf))

Max(a, b) == IF a >= b THEN a ELSE b
Min(a, b) == IF a <= b THEN a ELSE b

\* capacity of a bytes.Buffer of capacity c holding len bytes after n more
\* bytes are written (the read offset is always 0: the buffer is never read)
Grow(c, len, n) ==
    IF len + n <= c THEN c
    ELSE IF c = 0 /\ n <= SmallBufferSize THEN SmallBufferSize
    ELSE Max(len + n, 2 * c)

\* the zero value logMessage{}
ZeroMessage == [buf |-> <<>>, level |-> 0, cap |-> 0]

\* msg.Write(p) and msg.WriteByte(0)
BufWrite(m, chunk) ==
    [m EXCEPT !.buf = Append(m.buf, chunk),
              !.cap = Grow(m.cap, BufLen(m.buf), ChunkLen(chunk))]

\* msg.Reset(): the content is dropped, the capacity kept
BufReset(m) == [m EXCEPT !.buf = <<>>]

\* fmt.Sprintf("%s %s %s", levelMapFmt[lvl], prefix, body) of queueMsg
queueMsg(lvl, prefix, body) ==
    [s |-> levelMapFmt(lvl) \o " " \o prefix \o " " \o body.s,
     pad |-> body.pad, nul |-> body.nul]

\* the inputs of the log calls
Prefix == "svc1"
CallInputs == {<<"Info", Str("ready")>>,
               <<"Error", [s |-> "disk full", pad |-> BigPad, nul |-> 0]>>}

\* no call in progress
\* log calls whose body holds a zero byte, as a Go string may ("a\x00")
BinaryInputs == {<<"Info", Str("ready")>>,
                 <<"Warn", [s |-> "a", pad |-> 0, nul |-> 1]>>}

NoArgs == <<"", Str("")>>
NoMsg == 0
NoConn == "nil"
\* the connections net.Dial can return
Conns == {"c1", "c2"}
\* the connection of a SetCustomSocket call made before the first log call
SetupConns == {"c1"}
NoOne == "none"
Objs == 1..NumMessages

VARIABLES
    msgs,          \* msgArr: the message objects, by index 1..NumMessages
    freeMessages,  \* channel of free messages (capacity NumMessages)
    messages,      \* channel of pending messages (capacity NumMessages)
    closed,        \* messages has been closed
    shuttingDown,  \* the flag guarded by shuttingDownMux
    rwWriter,      \* shuttingDownMux: the caller holding or awaiting the write lock
    rwReaders,     \* shuttingDownMux: the producers holding the read lock
    wg,            \* the WaitGroup counter
    customSock,    \* NoConn (nil) or a connection
    sockClosed,    \* the connections that have been closed
    logCount, dropCount, errCount,
    ppc, pargs, pentry, pmsg, perr,   \* producers: position, queueMsg's (lvl, body),
                                      \* logEntry, msg, err
    wpc, wmsg, wsock,          \* writer: position, msg, customSock # nil at line 195
    dpc,                       \* shutdown callers: position
    panic,                     \* "" or the runtime panic that ended the process
    \* history variables
    calls,         \* number of log calls issued
    nacq,          \* number of messages acquired from the pool
    tick,          \* tick[o]: acquisition number of the content of object o
    outcome,       \* outcome[p]: how the producer's current/last call went
    enqLog,        \* acquisition numbers in the order of enqueue
    written        \* the sink writes that returned, in order

vars == <<msgs, freeMessages, messages, closed, shuttingDown, rwWriter, rwReaders,
          wg, customSock, sockClosed, logCount, dropCount, errCount,
          ppc, pargs, pentry, pmsg, perr, wpc, wmsg, wsock, dpc, panic,
          calls, nacq, tick, outcome, enqLog, written>>

globals == <<msgs, freeMessages, messages, closed, shuttingDown, rwWriter, rwReaders,
             wg, customSock, sockClosed, logCount, dropCount, errCount>>
prodVars == <<ppc, pargs, pentry, pmsg, perr>>
writerVars == <<wpc, wmsg, wsock>>
histVars == <<calls, nacq, tick, outcome, enqLog, written>>

(***************************************************************************)
(* Channel operations.                                                     *)
(***************************************************************************)
\* a receive takes the oldest element of a buffered channel
ChanRecvNewest(ch) == [msg |-> ch[Len(ch)], rest |-> SubSeq(ch, 1, Len(ch) - 1)]
ChanRecv(ch) == [msg |-> Head(ch), rest |-> Tail(ch)]
\* a non-blocking send (select with default) succeeds iff the buffer has room
ChanHasRoomOffByOne(ch) == Len(ch) < NumMessages - 1
ChanHasRoom(ch) == Len(ch) < NumMessages

\* init, lines 214-219: freeMsg(&msgArr[i]) for i = 1, 2, ... until one fails
RECURSIVE InitFree(_, _)
InitFree(i, ch) ==
    IF i > NumMessages \/ ~ChanHasRoom(ch) THEN ch ELSE InitFree(i + 1, Append(ch, i))

(***************************************************************************)
(* init(): every message of msgArr is released into the pool, the writer   *)
(* goroutine is started with wg = 1.  The sink has been chosen by the      *)
(* setup: no call of SetCustomSocket, or one that connected.               *)
(***************************************************************************)
Init ==
    /\ msgs = [o \in Objs |-> ZeroMessage]
    /\ freeMessages = InitFree(1, <<>>)
    /\ messages = <<>>
    /\ closed = FALSE
    /\ shuttingDown = FALSE
    /\ rwWriter = NoOne
    /\ rwReaders = {}
    /\ wg = 1
    /\ customSock \in {NoConn} \cup SetupConns
    /\ sockClosed = {}
    /\ logCount = 0 /\ dropCount = 0
    /\ errCount = (IF Len(InitFree(1, <<>>)) < NumMessages THEN 1 ELSE 0)
    /\ ppc = [p \in Producers |-> "idle"]
    /\ pargs = [p \in Producers |-> NoArgs]
    /\ pentry = [p \in Producers |-> Str("")]
    /\ pmsg = [p \in Producers |-> NoMsg]
    /\ perr = [p \in Producers |-> "nil"]
    /\ wpc = "recv" /\ wmsg = NoMsg /\ wsock = FALSE
    /\ dpc = [d \in Drainers |-> "idle"]
    /\ panic = ""
    /\ calls = 0 /\ nacq = 0
    /\ tick = [o \in Objs |-> 0]
    /\ outcome = [p \in Producers |-> "none"]
    /\ enqLog = <<>>
    /\ written = <<>>

Running == panic = ""


(***************************************************************************)
(* shuttingDownMux (sync.RWMutex).  Lock() first announces the writer,     *)
(* which blocks every later RLock(), then waits for the readers that hold  *)
(* the lock to leave.                                                      *)
(***************************************************************************)
CanRLockUnguarded == TRUE
CanRLock == rwWriter = NoOne
CanLock == rwWriter = NoOne
LockGranted == rwReaders = {}

(***************************************************************************)
(* Producers: queueMsg(lvl, prefix, format, v...) -> queueMsgDirect        *)
(***************************************************************************)
\* the call: queueMsg renders the entry and enters queueMsgDirect
CallWith(p, inputs) ==
    /\ Running
    /\ ppc[p] = "idle"
    /\ calls < MaxCalls
    /\ \E in \in inputs :
         /\ pargs' = [pargs EXCEPT ![p] = in]
         /\ pentry' = [pentry EXCEPT ![p] = queueMsg(in[1], Prefix, in[2])]
    /\ ppc' = [ppc EXCEPT ![p] = "rlock"]
    /\ calls' = calls + 1
    /\ UNCHANGED <<globals, pmsg, perr, writerVars, dpc, panic,
                   nacq, tick, outcome, enqLog, written>>

Call(p) == CallWith(p, CallInputs)
CallBinary(p) == CallWith(p, BinaryInputs)

\* line 115: shuttingDownMux.RLock()
RLock(p) ==
    /\ Running
    /\ ppc[p] = "rlock"
    /\ CanRLock
    /\ rwReaders' = rwReaders \cup {p}
    /\ ppc' = [ppc EXCEPT ![p] = "check"]
    /\ UNCHANGED <<msgs, freeMessages, messages, closed, shuttingDown, rwWriter,
                   wg, customSock, sockClosed, logCount, dropCount, errCount,
                   pargs, pentry, pmsg, perr, writerVars, dpc, panic, histVars>>

\* lines 118-120 and 158-160: the flag is read; logCount is incremented
CheckFlag(p) ==
    /\ Running
    /\ ppc[p] = "check"
    /\ IF ~shuttingDown
       THEN /\ logCount' = logCount + 1
            /\ ppc' = [ppc EXCEPT ![p] = "acquire"]
            /\ UNCHANGED <<perr, outcome>>
       ELSE /\ perr' = [perr EXCEPT ![p] = "ErrUnavailable"]
            /\ outcome' = [outcome EXCEPT ![p] = "unavailable"]
            /\ ppc' = [ppc EXCEPT ![p] = "runlock"]
            /\ UNCHANGED logCount
    /\ UNCHANGED <<msgs, freeMessages, messages, closed, shuttingDown, rwWriter,
                   rwReaders, wg, customSock, sockClosed, dropCount, errCount,
                   pargs, pentry, pmsg, writerVars, dpc, panic,
                   calls, nacq, tick, enqLog, written>>

\* the select of lines 125-136 never waits: it has a default case
AcquireReadyBlocking == freeMessages # <<>>
AcquireReady == TRUE
\* line 134: dropCount is incremented when no message was free, only then
DropDeltaAlways(gotMsg) == 1
DropDelta(gotMsg) == IF gotMsg THEN 0 ELSE 1
\* line 135: the bare return returns err, which is nil at this point
DropErr == "nil"

\* lines 138-147: level, msg.Write(logEntry), msg.WriteByte(0)
\* (err is nil here, so neither error branch is taken)
Render(m, entry) ==
    BufWrite(BufWrite([m EXCEPT !.level = levelSysLog("Debug")], entry), NulByte)

\* lines 124-147: a message is taken from the pool and rendered, or the call
\* drops the log line
Acquire(p) ==
    /\ Running
    /\ ppc[p] = "acquire"
    /\ AcquireReady
    /\ dropCount' = dropCount + DropDelta(freeMessages # <<>>)
    /\ IF freeMessages # <<>>
       THEN LET m == ChanRecv(freeMessages).msg IN
            /\ freeMessages' = ChanRecv(freeMessages).rest
            /\ pmsg' = [pmsg EXCEPT ![p] = m]
            /\ msgs' = [msgs EXCEPT ![m] = Render(msgs[m], pentry[p])]
            /\ nacq' = nacq + 1
            /\ tick' = [tick EXCEPT ![m] = nacq + 1]
            /\ ppc' = [ppc EXCEPT ![p] = "enqueue"]
            /\ UNCHANGED <<perr, outcome>>
       ELSE /\ perr' = [perr EXCEPT ![p] = DropErr]
            /\ outcome' = [outcome EXCEPT ![p] = "dropped"]
            /\ ppc' = [ppc EXCEPT ![p] = "runlock"]
            /\ UNCHANGED <<freeMessages, pmsg, msgs, nacq, tick>>
    /\ UNCHANGED <<messages, closed, shuttingDown, rwWriter, rwReaders, wg,
                   customSock, sockClosed, logCount, errCount,
                   pargs, pentry, writerVars, dpc, panic, calls, enqLog, written>>

\* lines 127-131: the deferred function releases the message when the call
\* fails
DeferredFreeAlways(err) == TRUE
DeferredFreeRuns(err) == err # "nil"

\* lines 149-157, then the deferred function of lines 127-131: the message is
\* sent on the pending queue; a send on a closed channel panics; with no room
\* the call fails with ErrLogFullBuf and the deferred freeMsg (lines 100-106)
\* returns the message to the pool
Enqueue(p) ==
    /\ Running
    /\ ppc[p] = "enqueue"
    /\ IF closed
       THEN /\ panic' = "send on closed channel"
            /\ UNCHANGED <<messages, enqLog, errCount, perr, outcome,
                           freeMessages, ppc>>
       ELSE LET sent == ChanHasRoom(messages)
                err == IF sent THEN "nil" ELSE "ErrLogFullBuf"
                freed == DeferredFreeRuns(err)
                overflow == freed /\ ~ChanHasRoom(freeMessages)
            IN  /\ messages' = IF sent THEN Append(messages, pmsg[p]) ELSE messages
                /\ enqLog' = IF sent THEN Append(enqLog, tick[pmsg[p]]) ELSE enqLog
                /\ perr' = [perr EXCEPT ![p] = err]
                /\ outcome' = [outcome EXCEPT ![p] =
                                  IF sent THEN "enqueued" ELSE "queuefull"]
                /\ freeMessages' = IF freed /\ ~overflow
                                   THEN Append(freeMessages, pmsg[p])
                                   ELSE freeMessages
                /\ errCount' = errCount + (IF sent THEN 0 ELSE 1)
                                         + (IF overflow THEN 1 ELSE 0)
                /\ ppc' = [ppc EXCEPT ![p] = "runlock"]
                /\ UNCHANGED panic
    /\ UNCHANGED <<msgs, closed, shuttingDown, rwWriter, rwReaders, wg,
                   customSock, sockClosed, logCount, dropCount,
                   pargs, pentry, pmsg, writerVars, dpc, calls, nacq, tick, written>>

\* line 116 (deferred): shuttingDownMux.RUnlock(); the call returns perr[p] and
\* its locals are gone
RUnlock(p) ==
    /\ Running
    /\ ppc[p] = "runlock"
    /\ rwReaders' = rwReaders \ {p}
    /\ ppc' = [ppc EXCEPT ![p] = "idle"]
    /\ pargs' = [pargs EXCEPT ![p] = NoArgs]
    /\ pentry' = [pentry EXCEPT ![p] = Str("")]
    /\ pmsg' = [pmsg EXCEPT ![p] = NoMsg]
    /\ perr' = [perr EXCEPT ![p] = "nil"]
    /\ outcome' = [outcome EXCEPT ![p] = "none"]
    /\ UNCHANGED <<msgs, freeMessages, messages, closed, shuttingDown, rwWriter,
                   wg, customSock, sockClosed, logCount, dropCount, errCount,
                   writerVars, dpc, panic, calls, nacq, tick, enqLog, written>>

ProducerStep(p) == RLock(p) \/ CheckFlag(p) \/ Acquire(p) \/ Enqueue(p) \/ RUnlock(p)


(***************************************************************************)
(* The writer goroutine: logWriter(), then wg.Done()                       *)
(***************************************************************************)
\* "for msg := range messages" ends when the channel is closed and empty
RangeDoneOnClose == closed
RangeDone == closed /\ messages = <<>>

\* line 194: the next pending message is received, or the loop ends
Recv ==
    /\ Running
    /\ wpc = "recv"
    /\ IF RangeDone
       THEN /\ wpc' = "exit"
            /\ UNCHANGED <<wmsg, messages>>
       ELSE /\ messages # <<>>
            /\ wmsg' = ChanRecv(messages).msg
            /\ messages' = ChanRecv(messages).rest
            /\ wpc' = "sel"
    /\ UNCHANGED <<msgs, freeMessages, closed, shuttingDown, rwWriter, rwReaders,
                   wg, customSock, sockClosed, logCount, dropCount, errCount,
                   prodVars, wsock, dpc, panic, histVars>>

\* line 195: customSock is read to choose the sink
SelectSink ==
    /\ Running
    /\ wpc = "sel"
    /\ wsock' = (customSock # NoConn)
    /\ wpc' = "write"
    /\ UNCHANGED <<globals, prodVars, wmsg, dpc, panic, histVars>>

\* lines 175 and 184: C.LOG_USER|msg.level (the level is below 8, the bits
\* of LOG_USER and of the level are disjoint)
Priority(m) == LOG_USER + m.level

\* lines 196-201: the result of the sink write is discarded, the loop goes on
AfterWriteStop(ok) == IF ok THEN "free" ELSE "exit"
AfterWrite(ok) == "free"
\* lines 176 and 186: a failed sink write is counted
WriteErrIncrement(ok) == IF ok THEN 0 ELSE 1

\* lines 173-178 (write) or 184-188 (writeCustomSocket): the blocking sink
\* write returns, with or without an error.  write takes the address of the
\* first byte; writeCustomSocket reads customSock again.
SinkWrite ==
    /\ Running
    /\ wpc = "write"
    /\ IF ~wsock /\ msgs[wmsg].buf = <<>>
       THEN /\ panic' = "index out of range"
            /\ UNCHANGED <<errCount, written, wpc>>
       ELSE IF wsock /\ customSock = NoConn
       THEN /\ panic' = "nil pointer dereference"
            /\ UNCHANGED <<errCount, written, wpc>>
       ELSE \E ok \in BOOLEAN :
            /\ (wsock /\ customSock \in sockClosed) => ~ok
            /\ errCount' = errCount + WriteErrIncrement(ok)
            /\ written' = Append(written, [id |-> tick[wmsg], ok |-> ok])
            /\ wpc' = AfterWrite(ok)
            /\ UNCHANGED panic
    /\ wsock' = FALSE
    /\ UNCHANGED <<msgs, freeMessages, messages, closed, shuttingDown, rwWriter,
                   rwReaders, wg, customSock, sockClosed, logCount, dropCount,
                   prodVars, wmsg, dpc, calls, nacq, tick, outcome, enqLog>>

\* lines 201-205: an oversized buffer is dropped, any other is emptied
RecycleNeverShrinks(m) == BufReset(m)
RecycleKeepsContent(m) == IF m.cap > MaxFreeMsgSize THEN ZeroMessage ELSE m
Recycle(m) == IF m.cap > MaxFreeMsgSize THEN ZeroMessage ELSE BufReset(m)

\* lines 201-206 and freeMsg (lines 100-108): the message is recycled and
\* released into the pool
Free ==
    /\ Running
    /\ wpc = "free"
    /\ msgs' = [msgs EXCEPT ![wmsg] = Recycle(msgs[wmsg])]
    /\ IF ChanHasRoom(freeMessages)
       THEN /\ freeMessages' = Append(freeMessages, wmsg)
            /\ UNCHANGED errCount
       ELSE /\ errCount' = errCount + 1
            /\ UNCHANGED freeMessages
    /\ tick' = [tick EXCEPT ![wmsg] = 0]
    /\ wmsg' = NoMsg
    /\ wpc' = "recv"
    /\ UNCHANGED <<messages, closed, shuttingDown, rwWriter, rwReaders, wg,
                   customSock, sockClosed, logCount, dropCount,
                   prodVars, wsock, dpc, panic, calls, nacq, outcome, enqLog, written>>

\* lines 208-210: the custom socket, if any, is closed
WriterExit ==
    /\ Running
    /\ wpc = "exit"
    /\ sockClosed' = IF customSock # NoConn THEN sockClosed \cup {customSock} ELSE sockClosed
    /\ wpc' = "wgdone"
    /\ UNCHANGED <<msgs, freeMessages, messages, closed, shuttingDown, rwWriter,
                   rwReaders, wg, customSock, logCount, dropCount, errCount,
                   prodVars, wmsg, wsock, dpc, panic, histVars>>

\* line 224: wg.Done()
WgDone ==
    /\ Running
    /\ wpc = "wgdone"
    /\ wg' = wg - 1
    /\ wpc' = "done"
    /\ UNCHANGED <<msgs, freeMessages, messages, closed, shuttingDown, rwWriter,
                   rwReaders, customSock, sockClosed, logCount, dropCount,
                   errCount, prodVars, wmsg, wsock, dpc, panic, histVars>>

(***************************************************************************)
(* drainTheQueue()                                                         *)
(***************************************************************************)
\* line 231, first half: Lock() takes the writer slot of the mutex; from now
\* on no RLock() is granted
DrainLock(d) ==
    /\ Running
    /\ dpc[d] = "idle"
    /\ CanLock
    /\ rwWriter' = d
    /\ dpc' = [dpc EXCEPT ![d] = "lockwait"]
    /\ UNCHANGED <<msgs, freeMessages, messages, closed, shuttingDown, rwReaders,
                   wg, customSock, sockClosed, logCount, dropCount, errCount,
                   prodVars, writerVars, panic, histVars>>

\* line 231, second half: Lock() returns when the last reader has left
DrainLocked(d) ==
    /\ Running
    /\ dpc[d] = "lockwait"
    /\ LockGranted
    /\ dpc' = [dpc EXCEPT ![d] = "locked"]
    /\ UNCHANGED <<globals, prodVars, writerVars, panic, histVars>>

\* lines 233-235: the flag is set and the channel closed; closing a closed
\* channel panics
DrainClose(d) ==
    /\ Running
    /\ dpc[d] = "locked"
    /\ shuttingDown' = TRUE
    /\ IF closed
       THEN /\ panic' = "close of closed channel"
            /\ UNCHANGED <<closed, dpc>>
       ELSE /\ closed' = TRUE
            /\ dpc' = [dpc EXCEPT ![d] = "unlock"]
            /\ UNCHANGED panic
    /\ UNCHANGED <<msgs, freeMessages, messages, rwWriter, rwReaders,
                   wg, customSock, sockClosed, logCount, dropCount, errCount,
                   prodVars, writerVars, histVars>>

\* line 237: shuttingDownMux.Unlock()
DrainUnlock(d) ==
    /\ Running
    /\ dpc[d] = "unlock"
    /\ rwWriter' = NoOne
    /\ dpc' = [dpc EXCEPT ![d] = "wait"]
    /\ UNCHANGED <<msgs, freeMessages, messages, closed, shuttingDown, rwReaders,
                   wg, customSock, sockClosed, logCount, dropCount, errCount,
                   prodVars, writerVars, panic, histVars>>

\* wg.Wait() returns when the counter is zero
WaitDoneAtOnce == TRUE
WaitDone == wg = 0

\* line 240: wg.Wait(), then drainTheQueue returns
DrainWait(d) ==
    /\ Running
    /\ dpc[d] = "wait"
    /\ WaitDone
    /\ dpc' = [dpc EXCEPT ![d] = "done"]
    /\ UNCHANGED <<globals, prodVars, writerVars, panic, histVars>>

(***************************************************************************)
(* SetCustomSocket(address, network): customSock is assigned the result of *)
(* net.Dial, the new connection or nil when the dial fails.                *)
(***************************************************************************)
SetCustomSocket ==
    /\ Running
    /\ \E conn \in {NoConn} \cup (Conns \ (sockClosed \cup {customSock})) :
         customSock' = conn
    /\ UNCHANGED <<msgs, freeMessages, messages, closed, shuttingDown, rwWriter,
                   rwReaders, wg, sockClosed, logCount, dropCount, errCount,
                   prodVars, writerVars, dpc, panic, histVars>>

\* every step but the entry of a log call
Steps ==
    \/ \E p \in Producers : RLock(p)
    \/ \E p \in Producers : CheckFlag(p)
    \/ \E p \in Producers : Acquire(p)
    \/ \E p \in Producers : Enqueue(p)
    \/ \E p \in Producers : RUnlock(p)
    \/ Recv
    \/ SelectSink
    \/ SinkWrite
    \/ Free
    \/ WriterExit
    \/ WgDone
    \/ \E d \in Drainers : DrainLock(d)
    \/ \E d \in Drainers : DrainLocked(d)
    \/ \E d \in Drainers : DrainClose(d)
    \/ \E d \in Drainers : DrainUnlock(d)
    \/ \E d \in Drainers : DrainWait(d)

Next == (\E p \in Producers : Call(p)) \/ Steps

\* the sink is chosen before the first log call and left alone
Spec == Init /\ [][Next]_vars

\* SetCustomSocket is called at any time
NextSock == Next \/ SetCustomSocket
SpecSock == Init /\ [][NextSock]_vars

\* the log calls carry bodies with a zero byte
NextBinary == (\E p \in Producers : CallBinary(p)) \/ Steps
SpecBinary == Init /\ [][NextBinary]_vars

TypeOK ==
    /\ \A i \in 1..Len(freeMessages) : freeMessages[i] \in Objs
    /\ \A i \in 1..Len(messages) : messages[i] \in Objs
    /\ Len(freeMessages) <= NumMessages /\ Len(messages) <= NumMessages
    /\ wmsg \in Objs \cup {NoMsg}
    /\ \A p \in Producers : pmsg[p] \in Objs \cup {NoMsg}


(***************************************************************************)
(* Definitions used by the properties.                                     *)
(***************************************************************************)
InCall(p) == ppc[p] # "idle"
WrittenIds == [i \in 1..Len(written) |-> written[i].id]
Count(seq, x) == Cardinality({i \in DOMAIN seq : seq[i] = x})
\* no log call is in progress and no shutdown has been requested
Quiet == (\A p \in Producers : ppc[p] = "idle") /\ (\A d \in Drainers : dpc[d] = "idle")
InFlight == Len(messages) + (IF wmsg # NoMsg THEN 1 ELSE 0)

\* C1: drainTheQueue returns only when the writer has exited and every
\* enqueued message has been passed to the sink write; nothing is pending or
\* held by the writer then.
C1_DrainReturnsAfterFlush ==
    \A d \in Drainers : dpc[d] = "done" =>
        /\ wpc = "done"
        /\ messages = <<>>
        /\ wmsg = NoMsg
        /\ \A i \in DOMAIN enqLog : Count(WrittenIds, enqLog[i]) >= 1

C1_Witness ==
    \E d \in Drainers : dpc[d] = "done" /\ Len(enqLog) >= 2 /\ Len(written) >= 2


\* C2: nothing is enqueued once the pending queue is closed.  A log call that
\* reads the flag after shutdown set it returns ErrUnavailable and touches
\* neither the pool nor the queue; a log call that read the flag as false is
\* past its enqueue before the close; no send on the closed channel happens;
\* the queue length never grows after the close.
C2_NoProducerPastCheckWhenClosed ==
    /\ panic # "send on closed channel"
    /\ (closed \/ shuttingDown) =>
          \A p \in Producers : ppc[p] \notin {"acquire", "enqueue"}
    /\ closed => shuttingDown

C2_Step ==
    /\ \A p \in Producers :
          (ppc[p] = "check" /\ shuttingDown /\ ppc'[p] # "check") =>
              /\ perr'[p] = "ErrUnavailable"
              /\ pmsg'[p] = NoMsg
              /\ UNCHANGED <<freeMessages, messages, msgs, logCount, enqLog>>
    /\ closed => (closed' /\ Len(messages') <= Len(messages) /\ enqLog' = enqLog)

C2_NoEnqueueAfterClose == [](C2_NoProducerPastCheckWhenClosed) /\ [][C2_Step]_vars

C2_Witness ==
    /\ closed
    /\ Len(enqLog) >= 1
    /\ \E p \in Producers : ppc[p] = "runlock" /\ perr[p] = "ErrUnavailable"
    /\ \E p \in Producers : ppc[p] = "rlock"

\* C3: every enqueued message is written exactly once before the writer
\* leaves its loop: nothing is written twice, nothing is written that was not
\* enqueued, and when the loop has ended every enqueued message was written.
C3_WrittenExactlyOnce ==
    /\ \A i, j \in DOMAIN written : i # j => written[i].id # written[j].id
    /\ \A i \in DOMAIN written : Count(enqLog, written[i].id) = 1
    /\ wpc \in {"exit", "wgdone", "done"} =>
          /\ messages = <<>>
          /\ \A i \in DOMAIN enqLog : Count(WrittenIds, enqLog[i]) = 1

C3_Witness == wpc = "exit" /\ Len(enqLog) >= 2 /\ Len(written) = Len(enqLog)

\* C4: the messages are written in the order of their enqueue (the k-th write
\* is the k-th enqueued message), whatever the order of their acquisition.
C4_WrittenInEnqueueOrder ==
    \A i \in DOMAIN written : i <= Len(enqLog) /\ written[i].id = enqLog[i]

\* two messages written in an order that is not their acquisition order
C4_Witness ==
    Len(written) >= 2 /\ written[1].id > written[2].id

\* C5 (as amended): a log call in progress can always take its next step,
\* except that RLock() waits while a drainTheQueue call is between its Lock()
\* and its Unlock(); the write lock is never held during wg.Wait(), so a log
\* call never waits for the writer, the sink or the drain.
C5_OnlyRLockWaitsForShutdownLock ==
    /\ \A p \in Producers : (Running /\ InCall(p)) =>
          \/ ENABLED ProducerStep(p)
          \/ ppc[p] = "rlock" /\ rwWriter # NoOne
    /\ \A d \in Drainers : dpc[d] \in {"idle", "wait", "done"} => rwWriter # d

\* a log call waiting at nothing while the writer is stalled in the sink
\* write, the pool is empty and a shutdown caller waits for the drain
C5_Witness ==
    /\ wpc = "write"
    /\ \E d \in Drainers : dpc[d] = "wait"
    /\ \E p \in Producers : ppc[p] = "rlock" /\ ENABLED ProducerStep(p)

\* C5 as stated: every step of a log call in progress is enabled in every
\* state.
C5_EveryStepEnabled ==
    \A p \in Producers : (Running /\ InCall(p)) => ENABLED ProducerStep(p)

\* C6 as stated: a second drainTheQueue does not crash the process, does not
\* close the queue again and leaves the lock released.
C6_SecondShutdownHarmless ==
    /\ panic # "close of closed channel"
    /\ (\A d \in Drainers : dpc[d] \in {"idle", "wait", "done"}) => rwWriter = NoOne

\* C7 as stated: a log call that found the pool empty returns an error.
C7_DropReturnsError ==
    \A p \in Producers :
        (ppc[p] = "runlock" /\ outcome[p] = "dropped") => perr[p] # "nil"

\* C8: with no sink write returned (no message released by the writer), after
\* k log calls min(k, N) messages are in flight, max(0, k - N) were dropped,
\* dropCount = max(0, k - N) and errCount = 0.
C8_AcceptedAndDropped ==
    (Running /\ Quiet /\ written = <<>>) =>
        /\ InFlight = Min(calls, NumMessages)
        /\ Len(freeMessages) = NumMessages - Min(calls, NumMessages)
        /\ dropCount = Max(0, calls - NumMessages)
        /\ logCount = calls
        /\ errCount = 0

C8_Witness ==
    /\ Quiet /\ written = <<>> /\ wpc = "write"
    /\ calls > NumMessages /\ dropCount >= 1 /\ InFlight = NumMessages

\* C9: dropCount grows by one in the step of a log call that finds the pool
\* empty, and is unchanged by every other step.
C9_Step ==
    dropCount' = dropCount +
        (IF \E p \in Producers :
                ppc[p] = "acquire" /\ ppc'[p] # "acquire" /\ freeMessages = <<>>
         THEN 1 ELSE 0)

C9_DropCountCountsExhaustion == [][C9_Step]_vars

\* a log call dropped, others enqueued, a sink write failed and the shutdown
\* requested: dropCount counts the dropped call alone
C9_Witness ==
    /\ dropCount = 1
    /\ errCount >= 1
    /\ Len(enqLog) = NumMessages
    /\ calls > NumMessages
    /\ shuttingDown

\* C10: a failed sink write increments errCount, changes no producer's state
\* or result, and leaves the writer where a successful write leaves it; from
\* there the message is emptied and released into the pool and the writer
\* receives again.
C10_Step ==
    /\ (wpc = "write" /\ Len(written') > Len(written)) =>
          /\ wpc' = "free"
          /\ UNCHANGED <<ppc, perr, pmsg, outcome, wmsg, messages, freeMessages>>
          /\ errCount' = errCount + (IF written'[Len(written')].ok THEN 0 ELSE 1)
    /\ (wpc = "free" /\ wpc' # "free") =>
          /\ wpc' = "recv"
          /\ freeMessages' = Append(freeMessages, wmsg)
          /\ msgs'[wmsg].buf = <<>>
          /\ UNCHANGED <<ppc, perr, errCount, messages>>

C10_WriteFailureIsOnlyCounted == [][C10_Step]_vars

\* a failed write followed by a later write, with the failed message back in
\* the pool
C10_Witness ==
    /\ Len(written) >= 2
    /\ ~written[1].ok
    /\ written[2].ok
    /\ errCount = 1
    /\ Len(freeMessages) = NumMessages


\* C11 as stated: the message handed to the writer carries the priority that
\* levelSysLog gives for the level of its own log call, and that priority is
\* what the sink write emits.
C11_PriorityOfOwnLevel ==
    \A p \in Producers : ppc[p] = "enqueue" =>
        /\ msgs[pmsg[p]].level = levelSysLog(pargs[p][1])
        /\ Priority(msgs[pmsg[p]]) = LOG_USER + levelSysLog(pargs[p][1])

\* the text the claim expects for level lvl, prefix and body: "[lvl]", one
\* space, the prefix, one space, the body
ExpectedText(lvl, prefix, body) ==
    [s |-> "[" \o lvl \o "]" \o " " \o prefix \o " " \o body.s,
     pad |-> body.pad, nul |-> body.nul]

\* C12 as stated: the rendered message is "[L] P B" followed by one
\* terminator byte.
C12_RenderedExactly ==
    \A p \in Producers : ppc[p] = "enqueue" =>
        msgs[pmsg[p]].buf = <<ExpectedText(pargs[p][1], Prefix, pargs[p][2]), NulByte>>


\* C13 as stated: once the writer runs, no call of SetCustomSocket changes the
\* sink the writer uses, and the writer never finds the selection changed
\* between choosing the sink and writing to it.
C13_SinkFixedAfterStart ==
    [](panic # "nil pointer dereference") /\ [][customSock' = customSock]_vars


\* the number of places that hold message object o: a slot of the free pool,
\* a slot of the pending queue, a producer between acquire and enqueue, the
\* writer
HeldByProducer(p, o) == ppc[p] = "enqueue" /\ pmsg[p] = o
Places(o) ==
    Count(freeMessages, o) + Count(messages, o)
      + Cardinality({p \in Producers : HeldByProducer(p, o)})
      + (IF wmsg = o THEN 1 ELSE 0)

\* C14: every one of the N message objects is in exactly one place; so pool,
\* queue and producers together never hold more than N, and the channels hold
\* nothing but the objects of msgArr.
C14_EachMessageInOnePlace ==
    /\ \A o \in Objs : Places(o) = 1
    /\ Len(freeMessages) + Len(messages)
         + Cardinality({p \in Producers : ppc[p] = "enqueue"}) <= NumMessages
    /\ \A i \in DOMAIN freeMessages : freeMessages[i] \in Objs
    /\ \A i \in DOMAIN messages : messages[i] \in Objs

\* every kind of place is in use: no object is free
C14_Witness ==
    /\ freeMessages = <<>>
    /\ wmsg # NoMsg
    /\ \E p \in Producers : ppc[p] = "enqueue"
    /\ Len(messages) = NumMessages - 2

\* C15: a producer that holds an acquired message never finds the pending
\* queue full; no log call ends with ErrLogFullBuf.
C15_QueueNeverFull ==
    \A p \in Producers :
        /\ ppc[p] = "enqueue" => Len(messages) < NumMessages
        /\ outcome[p] # "queuefull"
        /\ perr[p] # "ErrLogFullBuf"

\* the tightest case: the queue holds every other message
C15_Witness ==
    \E p \in Producers : ppc[p] = "enqueue" /\ Len(messages) = NumMessages - 1

\* C16: every freeMsg call finds fewer than N messages in the pool: the calls
\* of init (the pool is complete after init, with no error counted), the
\* call of the writer, the deferred call of a producer.
C16_PoolNeverOverflows ==
    /\ Len(InitFree(1, <<>>)) = NumMessages
    /\ wpc = "free" => Len(freeMessages) < NumMessages
    /\ \A p \in Producers : ppc[p] = "enqueue" => Len(freeMessages) < NumMessages
    /\ written = <<>> => errCount = 0

\* the writer releases the last missing message
C16_Witness == wpc = "free" /\ Len(freeMessages) = NumMessages - 1

\* C17: when a drainTheQueue call has returned and no log call is in
\* progress, all N messages are in the free pool.
C17_AllFreeAfterShutdown ==
    ((\E d \in Drainers : dpc[d] = "done") /\ (\A p \in Producers : ppc[p] = "idle")) =>
        /\ Len(freeMessages) = NumMessages
        /\ \A o \in Objs : Count(freeMessages, o) = 1

\* shutdown returned after messages were written and a late log call was
\* rejected
C17_Witness ==
    /\ \E d \in Drainers : dpc[d] = "done"
    /\ \A p \in Producers : ppc[p] = "idle"
    /\ Len(written) >= 2
    /\ calls > Len(written) + dropCount


\* C18: when the writer recycles a message whose buffer (its allocated size,
\* msg.Cap()) is at most MaxFreeMsgSize, the message keeps that capacity and is
\* emptied; when it is larger, the message gets a fresh buffer of capacity 0;
\* either way a message is empty when it is acquired.
C18_Step ==
    /\ (wpc = "free" /\ wpc' # "free") =>
          /\ msgs'[wmsg].buf = <<>>
          /\ msgs[wmsg].cap <= MaxFreeMsgSize => msgs'[wmsg].cap = msgs[wmsg].cap
          /\ msgs[wmsg].cap > MaxFreeMsgSize => msgs'[wmsg].cap = 0
    /\ \A p \in Producers :
          (ppc[p] = "acquire" /\ ppc'[p] = "enqueue") => msgs[pmsg'[p]].buf = <<>>

C18_RecycleByCapacity == [][C18_Step]_vars

\* an oversized message is about to be recycled while a message that kept its
\* capacity is in use again
C18_Witness ==
    /\ wpc = "free"
    /\ msgs[wmsg].cap > MaxFreeMsgSize
    /\ \E p \in Producers :
          /\ ppc[p] = "enqueue"
          /\ msgs[pmsg[p]].cap = SmallBufferSize
          /\ Len(msgs[pmsg[p]].buf) = 2
          /\ Len(written) >= 2


\* the zero bytes a buffer holds
RECURSIVE ZeroBytes(_)
ZeroBytes(buf) == IF buf = <<>> THEN 0 ELSE Head(buf).nul + ZeroBytes(Tail(buf))

PoolBuffersEmpty == \A i \in DOMAIN freeMessages : msgs[freeMessages[i]].buf = <<>>

\* what queueMsg renders for the log calls of SpecBinary
Renderings == {queueMsg(in[1], Prefix, in[2]) : in \in BinaryInputs}

\* C19: every message in the free pool has an empty buffer, and every message
\* the writer has dequeued holds the rendering of exactly one log call followed
\* by the one terminator byte the call appended, which is its last byte; it
\* holds no other zero byte than that one and those of the log entry itself.
C19_OneRenderingThenTerminator ==
    /\ PoolBuffersEmpty
    /\ wmsg # NoMsg =>
         LET b == msgs[wmsg].buf IN
           /\ Len(b) = 2
           /\ b[1] \in Renderings
           /\ b[2] = NulByte
           /\ ZeroBytes(b) = 1 + b[1].nul

\* the writer is about to write a reused message whose entry holds a zero byte
C19_Witness ==
    /\ wpc = "write"
    /\ tick[wmsg] > NumMessages
    /\ msgs[wmsg].buf[1].nul = 1
    /\ Len(written) >= 1

\* C19 as stated: a dequeued message is non-empty, holds exactly one
\* terminator (zero) byte, and that byte is its last.
C19_ExactlyOneTerminatorByte ==
    /\ PoolBuffersEmpty
    /\ wmsg # NoMsg =>
         LET b == msgs[wmsg].buf IN
           /\ BufLen(b) > 0
           /\ b[Len(b)] = NulByte
           /\ ZeroBytes(b) = 1


\* C20 as stated: a call of drainTheQueue eventually returns, whatever is
\* pending and whatever the producers do; so a call that has started and not
\* yet returned is never in a state in which nothing can run any more.
C20_DrainCallCanStillReturn ==
    \A d \in Drainers : dpc[d] \notin {"idle", "done"} => ENABLED Next

====
